---- MODULE Spec2Model ----
(***************************************************************************)
(* The order service of src/app.py: one table of Order rows and the four   *)
(* request handlers store_order, get_recent_orders, mark_delivered and     *)
(* all_orders (plus the health route).                                     *)
(*                                                                         *)
(* Python values are modelled as follows.                                  *)
(*   str        a sequence of one-character strings                        *)
(*   JSON value a pair <<tag, payload>>, tag one of "null", "bool", "int", *)
(*              "str", "arr", "obj"; a str payload is a str as above, an   *)
(*              arr payload a sequence of JSON values, an obj payload a    *)
(*              sequence of <<key, value>> pairs in insertion order        *)
(*   datetime   <<year, month, day, hour, minute, second, microsecond>>,   *)
(*              compared field by field as datetime (and the stored text   *)
(*              "YYYY-MM-DD HH:MM:SS.ffffff") compares                     *)
(*   None       <<>> where a datetime is expected, JNull elsewhere         *)
(* The keys of request and response objects are written as TLA+ strings;   *)
(* the keys inside an order payload, which is serialised, are str. A text  *)
(* the program itself fixes (a message) is <<"lit", text>>.                *)
(***************************************************************************)
EXTENDS Integers, Sequences, FiniteSets, TLC

\* ------------------------------------------------------------------ bounds

\* The table takes no new row once it holds this many (a table that starts
\* with more takes none).
MaxOrders == 2

\* ------------------------------------------------------- program constants

\* .limit(20) of get_recent_orders
LIMIT == 20
\* len(value) == 10: the length of a bare 'YYYY-MM-DD'
DATE_LEN == 10

\* -------------------------------------------------------------- characters

Digits == <<"0", "1", "2", "3", "4", "5", "6", "7", "8", "9">>

IsDigit(c) == \E i \in 1..10 : Digits[i] = c

DigitVal(c) == (CHOOSE i \in 1..10 : Digits[i] = c) - 1

AllDigits(s, from, to) == \A i \in from..to : IsDigit(s[i])

RECURSIVE Num(_, _, _)
\* int(s[from..to]) for a run of digits
Num(s, from, to) ==
    IF from > to THEN 0
    ELSE 10 * Num(s, from, to - 1) + DigitVal(s[to])

\* "%02d" % n and "%04d" % n
Fmt2(n) == <<Digits[((n \div 10) % 10) + 1], Digits[(n % 10) + 1]>>

Fmt4(n) == Fmt2(n \div 100) \o Fmt2(n % 100)

RECURSIVE FmtInt(_)
\* str(n) for n >= 0
FmtInt(n) == IF n < 10 THEN <<Digits[n + 1]>> ELSE FmtInt(n \div 10) \o <<Digits[(n % 10) + 1]>>

\* -------------------------------------------------------------- JSON values

JNull == <<"null", <<>>>>
JBool(b) == <<"bool", b>>
JInt(n) == <<"int", n>>
JStr(s) == <<"str", s>>
JArr(a) == <<"arr", a>>
JObj(kvs) == <<"obj", kvs>>
JLit(text) == <<"lit", text>>

Tag(j) == j[1]
Val(j) == j[2]

\* Python truthiness of a JSON value: `not value` is ~Truthy(value)
Truthy(j) ==
    CASE Tag(j) = "null" -> FALSE
      [] Tag(j) = "bool" -> Val(j)
      [] Tag(j) = "int" -> Val(j) # 0
      [] Tag(j) = "lit" -> Val(j) # ""
      [] OTHER -> Len(Val(j)) > 0

\* dict.get(key, default) on a JSON object
HasKey(obj, key) == \E i \in 1..Len(Val(obj)) : Val(obj)[i][1] = key

Get(obj, key, default) ==
    IF HasKey(obj, key)
    THEN Val(obj)[CHOOSE i \in 1..Len(Val(obj)) : Val(obj)[i][1] = key][2]
    ELSE default

\* ------------------------------------------------------------------ datetime

NoneDT == <<>>

IsLeap(y) == (y % 4 = 0 /\ y % 100 # 0) \/ y % 400 = 0

DaysInMonth(y, m) ==
    IF m = 2 THEN (IF IsLeap(y) THEN 29 ELSE 28)
    ELSE IF m \in {4, 6, 9, 11} THEN 30 ELSE 31

\* The date and the time of day of a datetime, each as one number
DateKey(dt) == dt[1] * 10000 + dt[2] * 100 + dt[3]
TimeKey(dt) == dt[4] * 3600 + dt[5] * 60 + dt[6]

\* a <= b on datetimes: by date, then time of day, then microsecond
DtLeq(a, b) ==
    \/ DateKey(a) < DateKey(b)
    \/ /\ DateKey(a) = DateKey(b)
       /\ \/ TimeKey(a) < TimeKey(b)
          \/ TimeKey(a) = TimeKey(b) /\ a[7] <= b[7]

\* dt.replace(hour=h, minute=m, second=s): the microsecond is kept
Replace(dt, h, m, s) == <<dt[1], dt[2], dt[3], h, m, s, dt[7]>>

\* dt.strftime("%Y-%m-%d %H:%M:%S"): the microsecond is dropped
Strftime(dt) ==
    Fmt4(dt[1]) \o <<"-">> \o Fmt2(dt[2]) \o <<"-">> \o Fmt2(dt[3]) \o <<" ">>
        \o Fmt2(dt[4]) \o <<":">> \o Fmt2(dt[5]) \o <<":">> \o Fmt2(dt[6])

\* The date part of datetime.fromisoformat: 'YYYY-MM-DD' at s[1..10].
DateOk(s) ==
    /\ Len(s) >= DATE_LEN
    /\ AllDigits(s, 1, 4) /\ s[5] = "-" /\ AllDigits(s, 6, 7) /\ s[8] = "-"
    /\ AllDigits(s, 9, 10)
    /\ Num(s, 1, 4) >= 1
    /\ Num(s, 6, 7) \in 1..12
    /\ Num(s, 9, 10) \in 1..DaysInMonth(Num(s, 1, 4), Num(s, 6, 7))

\* The time part of datetime.fromisoformat, after the one-character separator
\* at s[11]: 'HH', 'HH:MM', 'HH:MM:SS', and 'HH:MM:SS.f' with 1 to 6 digits of
\* fraction (no UTC offset: the inputs of this model carry none).
TimeOk(s) ==
    LET n == Len(s) IN
    /\ n \in {13, 16, 19} \cup 21..26
    /\ AllDigits(s, 12, 13) /\ Num(s, 12, 13) < 24
    /\ n >= 16 => (s[14] = ":" /\ AllDigits(s, 15, 16) /\ Num(s, 15, 16) < 60)
    /\ n >= 19 => (s[17] = ":" /\ AllDigits(s, 18, 19) /\ Num(s, 18, 19) < 60)
    /\ n >= 21 => (s[20] = "." /\ AllDigits(s, 21, n))

RECURSIVE Pow10(_)
Pow10(k) == IF k = 0 THEN 1 ELSE 10 * Pow10(k - 1)

\* datetime.fromisoformat(s); NoneDT stands for the ValueError it raises
FromIsoFormat(s) ==
    LET n == Len(s) IN
    IF n = DATE_LEN /\ DateOk(s)
    THEN <<Num(s, 1, 4), Num(s, 6, 7), Num(s, 9, 10), 0, 0, 0, 0>>
    ELSE IF n > DATE_LEN /\ DateOk(s) /\ TimeOk(s)
    THEN <<Num(s, 1, 4), Num(s, 6, 7), Num(s, 9, 10),
           Num(s, 12, 13),
           IF n >= 16 THEN Num(s, 15, 16) ELSE 0,
           IF n >= 19 THEN Num(s, 18, 19) ELSE 0,
           IF n >= 21 THEN Num(s, 21, n) * Pow10(26 - n) ELSE 0>>
    ELSE NoneDT

RECURSIVE RStripZ(_)
\* value.rstrip("Z"): every trailing 'Z' goes
RStripZ(s) ==
    IF Len(s) > 0 /\ s[Len(s)] = "Z" THEN RStripZ(SubSeq(s, 1, Len(s) - 1)) ELSE s

\* _parse_iso_datetime with a fallback in place of None: a malformed value
\* comes out as the epoch
_parse_iso_datetime_epoch(value) ==
    IF ~Truthy(value) THEN NoneDT
    ELSE LET parsed == IF Len(Val(value)) = DATE_LEN THEN FromIsoFormat(Val(value))
                       ELSE FromIsoFormat(RStripZ(Val(value)))
         IN IF parsed = NoneDT THEN <<1970, 1, 1, 0, 0, 0, 0>> ELSE parsed

\* _parse_iso_datetime(value): value is JNull (no such query parameter) or a
\* JStr; the result is a datetime or NoneDT.
_parse_iso_datetime(value) ==
    IF ~Truthy(value) THEN NoneDT
    ELSE IF Len(Val(value)) = DATE_LEN THEN FromIsoFormat(Val(value))
    ELSE FromIsoFormat(RStripZ(Val(value)))

\* ------------------------------------------------------ json.dumps / loads

Quote == "\""
Backslash == "\\"

RECURSIVE EscapeChars(_)
\* The body of a JSON string literal: '"' and '\' are escaped
\* (ensure_ascii=False leaves every other character as it is).
EscapeChars(s) ==
    IF s = <<>> THEN <<>>
    ELSE (IF Head(s) \in {Quote, Backslash} THEN <<Backslash, Head(s)>> ELSE <<Head(s)>>)
             \o EscapeChars(Tail(s))

DumpsStr(s) == <<Quote>> \o EscapeChars(s) \o <<Quote>>

RECURSIVE Dumps(_), DumpsItems(_), DumpsPairs(_)
\* json.dumps(j, ensure_ascii=False), with the default separators ', ' and ': '
Dumps(j) ==
    CASE Tag(j) = "null" -> <<"n", "u", "l", "l">>
      [] Tag(j) = "bool" ->
            IF Val(j) THEN <<"t", "r", "u", "e">> ELSE <<"f", "a", "l", "s", "e">>
      [] Tag(j) = "int" ->
            IF Val(j) < 0 THEN <<"-">> \o FmtInt(0 - Val(j)) ELSE FmtInt(Val(j))
      [] Tag(j) = "str" -> DumpsStr(Val(j))
      [] Tag(j) = "arr" -> <<"[">> \o DumpsItems(Val(j)) \o <<"]">>
      [] Tag(j) = "obj" -> <<"{">> \o DumpsPairs(Val(j)) \o <<"}">>

DumpsItems(a) ==
    IF a = <<>> THEN <<>>
    ELSE Dumps(Head(a)) \o (IF Len(a) > 1 THEN <<",", " ">> ELSE <<>>) \o DumpsItems(Tail(a))

DumpsPairs(kvs) ==
    IF kvs = <<>> THEN <<>>
    ELSE DumpsStr(Head(kvs)[1]) \o <<":", " ">> \o Dumps(Head(kvs)[2])
             \o (IF Len(kvs) > 1 THEN <<",", " ">> ELSE <<>>) \o DumpsPairs(Tail(kvs))

\* A parse step's result: the value read and the index after it, or a failure
\* (the JSONDecodeError json.loads raises).
Parsed(v, i) == [ok |-> TRUE, v |-> v, i |-> i]
ParseError == [ok |-> FALSE, v |-> JNull, i |-> 0]

IsWs(c) == c \in {" ", "\t", "\n", "\r"}

RECURSIVE SkipWs(_, _)
SkipWs(s, i) == IF i <= Len(s) /\ IsWs(s[i]) THEN SkipWs(s, i + 1) ELSE i

\* s[i..] starts with the word w
StartsWith(s, i, w) ==
    /\ i + Len(w) - 1 <= Len(s)
    /\ \A k \in 1..Len(w) : s[i + k - 1] = w[k]

RECURSIVE DigitsEnd(_, _)
\* The index after the run of digits that starts at i
DigitsEnd(s, i) == IF i <= Len(s) /\ IsDigit(s[i]) THEN DigitsEnd(s, i + 1) ELSE i

RECURSIVE ParseStr(_, _, _)
\* The rest of a string literal whose opening quote is before i
ParseStr(s, i, acc) ==
    IF i > Len(s) THEN ParseError
    ELSE IF s[i] = Quote THEN Parsed(acc, i + 1)
    ELSE IF s[i] = Backslash
    THEN IF i + 1 <= Len(s) /\ s[i + 1] \in {Quote, Backslash}
         THEN ParseStr(s, i + 2, Append(acc, s[i + 1]))
         ELSE ParseError
    ELSE ParseStr(s, i + 1, Append(acc, s[i]))

RECURSIVE ParseValue(_, _), ParseItems(_, _, _), ParsePairs(_, _, _)
\* One JSON value starting at or after i (integers are the only numbers the
\* requests of this model carry)
ParseValue(s, i) ==
    LET k == SkipWs(s, i) IN
    IF k > Len(s) THEN ParseError
    ELSE CASE s[k] = "[" ->
                LET m == SkipWs(s, k + 1) IN
                IF m <= Len(s) /\ s[m] = "]" THEN Parsed(JArr(<<>>), m + 1)
                ELSE ParseItems(s, k + 1, <<>>)
           [] s[k] = "{" ->
                LET m == SkipWs(s, k + 1) IN
                IF m <= Len(s) /\ s[m] = "}" THEN Parsed(JObj(<<>>), m + 1)
                ELSE ParsePairs(s, k + 1, <<>>)
           [] s[k] = Quote ->
                LET r == ParseStr(s, k + 1, <<>>) IN
                IF r.ok THEN Parsed(JStr(r.v), r.i) ELSE ParseError
           [] s[k] = "n" ->
                IF StartsWith(s, k, <<"n", "u", "l", "l">>)
                THEN Parsed(JNull, k + 4) ELSE ParseError
           [] s[k] = "t" ->
                IF StartsWith(s, k, <<"t", "r", "u", "e">>)
                THEN Parsed(JBool(TRUE), k + 4) ELSE ParseError
           [] s[k] = "f" ->
                IF StartsWith(s, k, <<"f", "a", "l", "s", "e">>)
                THEN Parsed(JBool(FALSE), k + 5) ELSE ParseError
           [] s[k] = "-" ->
                LET e == DigitsEnd(s, k + 1) IN
                IF e > k + 1 THEN Parsed(JInt(0 - Num(s, k + 1, e - 1)), e)
                ELSE ParseError
           [] OTHER ->
                LET e == DigitsEnd(s, k) IN
                IF e > k THEN Parsed(JInt(Num(s, k, e - 1)), e) ELSE ParseError

\* The items of an array after '[' or ',', up to and including ']'
ParseItems(s, i, acc) ==
    LET r == ParseValue(s, i) IN
    IF ~r.ok THEN ParseError
    ELSE LET m == SkipWs(s, r.i) IN
         IF m > Len(s) THEN ParseError
         ELSE IF s[m] = "," THEN ParseItems(s, m + 1, Append(acc, r.v))
         ELSE IF s[m] = "]" THEN Parsed(JArr(Append(acc, r.v)), m + 1)
         ELSE ParseError

\* The members of an object after '{' or ',', up to and including '}'
ParsePairs(s, i, acc) ==
    LET k == SkipWs(s, i) IN
    IF k > Len(s) \/ s[k] # Quote THEN ParseError
    ELSE LET key == ParseStr(s, k + 1, <<>>) IN
         IF ~key.ok THEN ParseError
         ELSE LET c == SkipWs(s, key.i) IN
              IF c > Len(s) \/ s[c] # ":" THEN ParseError
              ELSE LET r == ParseValue(s, c + 1) IN
                   IF ~r.ok THEN ParseError
                   ELSE LET m == SkipWs(s, r.i) IN
                        IF m > Len(s) THEN ParseError
                        ELSE IF s[m] = ","
                        THEN ParsePairs(s, m + 1, Append(acc, <<key.v, r.v>>))
                        ELSE IF s[m] = "}"
                        THEN Parsed(JObj(Append(acc, <<key.v, r.v>>)), m + 1)
                        ELSE ParseError

\* json.loads(s): [ok |-> TRUE, v |-> the value], or ok = FALSE for the
\* JSONDecodeError (trailing text after the value is an error too)
Loads(s) ==
    LET r == ParseValue(s, 1) IN
    IF r.ok /\ SkipWs(s, r.i) > Len(s) THEN [ok |-> TRUE, v |-> r.v]
    ELSE [ok |-> FALSE, v |-> JNull]

\* ------------------------------------------------------------- the table

VARIABLES
    store,   \* the Order table: its rows in insertion (rowid) order
    resp,    \* the response to the last request
    dbLog    \* the storage calls the last request made, in order

vars == <<store, resp, dbLog>>

DESK == <<"d", "e", "s", "k">>

\* OrderRow with data.get("mode") in place of data.get("mode", "desk")
OrderRow_no_default(id, data, now) ==
    [id |-> id,
     timestamp |-> now,
     mode |-> Get(data, "mode", JNull),
     name |-> Get(data, "name", JNull),
     emp_code |-> Get(data, "emp_code", JNull),
     room_no |-> Get(data, "room_no", JNull),
     order_json |-> JStr(Dumps(Get(data, "order", JArr(<<>>)))),
     delivered |-> FALSE]

\* Order(mode=..., name=..., ...) of store_order, with the column defaults of
\* the model class: timestamp = datetime.utcnow(), delivered = False
OrderRow(id, data, now) ==
    [id |-> id,
     timestamp |-> now,
     mode |-> Get(data, "mode", JStr(DESK)),
     name |-> Get(data, "name", JNull),
     emp_code |-> Get(data, "emp_code", JNull),
     room_no |-> Get(data, "room_no", JNull),
     order_json |-> JStr(Dumps(Get(data, "order", JArr(<<>>)))),
     delivered |-> FALSE]

\* The integer primary key the engine gives a new row: one more than the
\* largest in the table
NextId(table) ==
    IF table = <<>> THEN 1
    ELSE 1 + CHOOSE m \in {table[i].id : i \in 1..Len(table)} :
                 \A i \in 1..Len(table) : table[i].id <= m

\* Order.query.get(order_id): the index of the row with that primary key, 0
\* for None
QueryGet(table, order_id) ==
    IF \E i \in 1..Len(table) : table[i].id = order_id
    THEN CHOOSE i \in 1..Len(table) : table[i].id = order_id
    ELSE 0

\* Each row at the indices S, paired with the number of rows of S that have a
\* later timestamp
Later(table, S) ==
    {<<i, Cardinality({j \in S : ~DtLeq(table[j].timestamp, table[i].timestamp)})>> : i \in S}

RECURSIVE Arrange(_, _)
\* The pairs R still to place, k rows being placed already: next comes any row
\* that has at most k rows later than it
Arrange(R, k) ==
    IF R = {} THEN {<<>>}
    ELSE UNION {{<<p[1]>> \o rest : rest \in Arrange(R \ {p}, k + 1)} :
                    p \in {r \in R : r[2] <= k}}

RECURSIVE Ascending(_)
\* The indices S in increasing order
Ascending(S) ==
    IF S = {} THEN <<>>
    ELSE LET least == CHOOSE i \in S : \A j \in S : i <= j
         IN <<least>> \o Ascending(S \ {least})

\* The query without its order_by: the rows as the table scan gives them
OrderByRowid(table, S) == {Ascending(S)}

\* .order_by(Order.timestamp.desc()) over the rows at the indices S: every
\* order the engine may return them in (rows with equal timestamps come in
\* any order)
OrderByTimestampDesc(table, S) == Arrange(Later(table, S), 0)

\* .limit(n)
Limit(seq, n) == SubSeq(seq, 1, IF Len(seq) < n THEN Len(seq) ELSE n)

\* json.loads(o.order_json or "[]")
LoadOrder(o) ==
    Loads(IF Truthy(o.order_json) THEN Val(o.order_json) ELSE <<"[", "]">>)

\* The dict get_recent_orders appends for the row o, `order` being its
\* deserialised order_json
RecentEntry(o, order) ==
    JObj(<< <<"id", JInt(o.id)>>,
            <<"timestamp", JStr(Strftime(o.timestamp))>>,
            <<"mode", o.mode>>,
            <<"name", o.name>>,
            <<"emp_code", o.emp_code>>,
            <<"room_no", o.room_no>>,
            <<"order", order>> >>)

\* The dict all_orders appends for the row o
AllEntry(o, order) ==
    JObj(<< <<"id", JInt(o.id)>>,
            <<"timestamp", JStr(Strftime(o.timestamp))>>,
            <<"mode", o.mode>>,
            <<"name", o.name>>,
            <<"emp_code", o.emp_code>>,
            <<"room_no", o.room_no>>,
            <<"delivered", JBool(o.delivered)>>,
            <<"order", order>> >>)

RECURSIVE RecentResult(_, _, _)
\* The loop `for o in orders: result.append({...})` of get_recent_orders, from
\* the k-th row on: the list built, or ok = FALSE when json.loads raises
RecentResult(table, orders, k) ==
    IF k > Len(orders) THEN [ok |-> TRUE, v |-> <<>>]
    ELSE LET o == table[orders[k]]
             order == LoadOrder(o)
             rest == RecentResult(table, orders, k + 1)
         IN IF order.ok /\ rest.ok
            THEN [ok |-> TRUE, v |-> <<RecentEntry(o, order.v)>> \o rest.v]
            ELSE [ok |-> FALSE, v |-> <<>>]

RECURSIVE AllResult(_, _, _)
\* The same loop of all_orders
AllResult(table, orders, k) ==
    IF k > Len(orders) THEN [ok |-> TRUE, v |-> <<>>]
    ELSE LET o == table[orders[k]]
             order == LoadOrder(o)
             rest == AllResult(table, orders, k + 1)
         IN IF order.ok /\ rest.ok
            THEN [ok |-> TRUE, v |-> <<AllEntry(o, order.v)>> \o rest.v]
            ELSE [ok |-> FALSE, v |-> <<>>]

\* What one request comes to: the table after it, the response, the storage
\* calls made
Outcome(table, op, req, status, body, log) ==
    [table |-> table,
     resp |-> [op |-> op, req |-> req, status |-> status, body |-> body],
     log |-> log]

\* An exception that escapes a handler: the framework answers 500
ServerError(table, op, req, log) == Outcome(table, op, req, 500, JNull, log)

\* request.get_json(silent=True) or {}
JsonOrEmpty(body) == IF Truthy(body) THEN body ELSE JObj(<<>>)

\* ---------------------------------------------------------------- handlers

\* POST /store_order with the JSON body `body`, the clock reading `now`
store_order(table, body, now) ==
    LET data == JsonOrEmpty(body)
        order_row == OrderRow(NextId(table), data, now)
    IN Outcome(Append(table, order_row), "store_order", body, 200,
               JObj(<< <<"message", JLit("Order stored successfully")>>,
                       <<"id", JInt(order_row.id)>> >>),
               <<"insert", "commit">>)

\* get_recent_orders without .filter_by(delivered=False)
get_recent_orders_unfiltered(table) ==
    {LET result == RecentResult(table, Limit(sorted, LIMIT), 1) IN
     IF result.ok
     THEN Outcome(table, "get_recent_orders", JNull, 200, JArr(result.v), <<"select">>)
     ELSE ServerError(table, "get_recent_orders", JNull, <<"select">>)
     : sorted \in OrderByTimestampDesc(table, 1..Len(table))}

\* GET /get_recent_orders: the set of its possible outcomes
get_recent_orders(table) ==
    LET pending == {i \in 1..Len(table) : table[i].delivered = FALSE}
    IN {LET result == RecentResult(table, Limit(sorted, LIMIT), 1) IN
        IF result.ok
        THEN Outcome(table, "get_recent_orders", JNull, 200, JArr(result.v), <<"select">>)
        ELSE ServerError(table, "get_recent_orders", JNull, <<"select">>)
        : sorted \in OrderByTimestampDesc(table, pending)}

MissingId(table, body) ==
    Outcome(table, "mark_delivered", body, 400,
            JObj(<< <<"error", JLit("Missing 'id'")>> >>), <<>>)

OrderNotFound(table, body) ==
    Outcome(table, "mark_delivered", body, 404,
            JObj(<< <<"error", JLit("Order not found")>> >>), <<"get">>)

\* The order at index `order` of the table gets delivered = value
MarkedDelivered(table, body, order, value) ==
    Outcome([table EXCEPT ![order].delivered = value],
            "mark_delivered", body, 200,
            JObj(<< <<"message", JLit("Order marked as delivered")>> >>),
            \* the session writes a row only if an attribute changed
            IF table[order].delivered = value
            THEN <<"get", "commit">>
            ELSE <<"get", "update", "commit">>)

\* mark_delivered with `order.delivered = not order.delivered`
mark_delivered_toggle(table, body) ==
    LET order_id == Get(JsonOrEmpty(body), "id", JNull) IN
    IF ~Truthy(order_id) THEN MissingId(table, body)
    ELSE LET order == QueryGet(table, Val(order_id)) IN
         IF order = 0 THEN OrderNotFound(table, body)
         ELSE MarkedDelivered(table, body, order, ~table[order].delivered)

\* mark_delivered that refuses an order already delivered
mark_delivered_once(table, body) ==
    LET order_id == Get(JsonOrEmpty(body), "id", JNull) IN
    IF ~Truthy(order_id) THEN MissingId(table, body)
    ELSE LET order == QueryGet(table, Val(order_id)) IN
         IF order = 0 \/ table[order].delivered THEN OrderNotFound(table, body)
         ELSE MarkedDelivered(table, body, order, TRUE)

\* mark_delivered that looks the order up before it checks the id
mark_delivered_lookup_first(table, body) ==
    LET order_id == Get(JsonOrEmpty(body), "id", JNull) IN
    IF ~Truthy(order_id)
    THEN [MissingId(table, body) EXCEPT !.log = <<"get">>]
    ELSE LET order == QueryGet(table, Val(order_id)) IN
         IF order = 0 THEN OrderNotFound(table, body)
         ELSE MarkedDelivered(table, body, order, TRUE)

\* POST /mark_delivered with the JSON body `body`
mark_delivered(table, body) ==
    LET data == JsonOrEmpty(body)
        order_id == Get(data, "id", JNull)
    IN IF ~Truthy(order_id) THEN MissingId(table, body)
       ELSE LET order == QueryGet(table, Val(order_id)) IN
            IF order = 0 THEN OrderNotFound(table, body)
            ELSE MarkedDelivered(table, body, order, TRUE)

\* GET /all_orders?start=start_str&end=end_str (JNull: the parameter is not
\* given): the set of its possible outcomes
all_orders(table, start_str, end_str) ==
    LET req == [start |-> start_str, end |-> end_str]
        start_dt == _parse_iso_datetime(start_str)
        parsed_end == _parse_iso_datetime(end_str)
        end_dt == IF parsed_end # NoneDT /\ Truthy(end_str)
                     /\ Len(Val(end_str)) = DATE_LEN
                  THEN Replace(parsed_end, 23, 59, 59)
                  ELSE parsed_end
        matching == {i \in 1..Len(table) :
                        /\ start_dt # NoneDT => DtLeq(start_dt, table[i].timestamp)
                        /\ end_dt # NoneDT => DtLeq(table[i].timestamp, end_dt)}
    IN {LET result == AllResult(table, orders, 1) IN
        IF result.ok
        THEN Outcome(table, "all_orders", req, 200, JArr(result.v), <<"select">>)
        ELSE ServerError(table, "all_orders", req, <<"select">>)
        : orders \in OrderByTimestampDesc(table, matching)}

\* GET /
health(table) == Outcome(table, "health", JNull, 200,
                         JObj(<< <<"status", JLit("ok")>> >>), <<>>)

\* ------------------------------------------------------------------ inputs

\* Readings of the service clock (datetime.utcnow()): the start of the last
\* second of 2025-08-01, and half a second later
Clock ==
    {<<2025, 8, 1, 23, 59, 59, 0>>,
     <<2025, 8, 1, 23, 59, 59, 500000>>}

\* [{"sugar": true}]
SugarOrder == JArr(<<JObj(<< <<<<"s", "u", "g", "a", "r">>, JBool(TRUE)>> >>)>>)

\* Bodies of POST /store_order: none, and one with every field
StoreBodies ==
    {JNull,
     JObj(<< <<"mode", JStr(<<"c", "a", "f", "e">>)>>,
             <<"name", JStr(<<"A", "l">>)>>,
             <<"emp_code", JStr(<<"E", "7">>)>>,
             <<"room_no", JStr(<<"K", "i", "t", "c", "h", "e", "n">>)>>,
             <<"order", SugarOrder>> >>)}

\* Bodies of POST /mark_delivered: no id, an empty id, and integer ids
MarkBodies ==
    {JNull, JObj(<< <<"id", JStr(<<>>)>> >>)}
        \cup {JObj(<< <<"id", JInt(n)>> >>) : n \in {0, 1, 2, 99}}

AUG01 == <<"2", "0", "2", "5", "-", "0", "8", "-", "0", "1">>

\* Bare calendar dates
BareDates == {JStr(AUG01)}

\* Strings that are no date and no date-time: 'not-a-date' (as long as a bare
\* date) and '2025-08-01T25:00Z'
Garbage ==
    {JStr(<<"n", "o", "t", "-", "a", "-", "d", "a", "t", "e">>),
     JStr(AUG01 \o <<"T", "2", "5", ":", "0", "0", "Z">>)}

\* Values of the start and end parameters of GET /all_orders
Bounds == {JNull} \cup BareDates \cup Garbage

\* ------------------------------------------------------------ state machine

BacklogSize == LIMIT + 2

\* A table left by an earlier run: BacklogSize orders stored with no body, one
\* a second, but the second and the third within the same microsecond; the
\* oldest is delivered, the others are pending
Backlog ==
    [i \in 1..BacklogSize |->
        [OrderRow(i, JObj(<<>>), <<2025, 7, 30, 10, 0, IF i = 2 THEN 3 ELSE i, 0>>)
            EXCEPT !.delivered = (i = 1)]]

\* A table that holds one row this program did not write: its order_json is
\* NULL, or a text that is not JSON
LegacyTables ==
    {<<[OrderRow(1, JObj(<<>>), <<2025, 7, 30, 10, 0, 1, 0>>) EXCEPT !.order_json = text]>> :
        text \in {JNull, JStr(<<"{", "o">>)}}

NoResponse == [op |-> "init", req |-> JNull, status |-> 0, body |-> JNull]

\* db.create_all() on a new database file, or on the file an earlier run left
Init ==
    /\ store \in {<<>>, Backlog}
    /\ resp = NoResponse
    /\ dbLog = <<"create_all">>

\* db.create_all() on a database file with a row of another writer
InitLegacy ==
    /\ store \in LegacyTables
    /\ resp = NoResponse
    /\ dbLog = <<"create_all">>

\* The bound on the rows added
CanStore == Len(store) < MaxOrders

Apply(outcome) ==
    /\ store' = outcome.table
    /\ resp' = outcome.resp
    /\ dbLog' = outcome.log

StoreOrder ==
    /\ CanStore
    /\ \E body \in StoreBodies, now \in Clock : Apply(store_order(store, body, now))

GetRecentOrders == \E outcome \in get_recent_orders(store) : Apply(outcome)

MarkDelivered == \E body \in MarkBodies : Apply(mark_delivered(store, body))

AllOrders ==
    \E start_str \in Bounds, end_str \in Bounds :
        \E outcome \in all_orders(store, start_str, end_str) : Apply(outcome)

Health == Apply(health(store))

Next == StoreOrder \/ GetRecentOrders \/ MarkDelivered \/ AllOrders \/ Health

Spec == Init /\ [][Next]_vars

SpecLegacy == InitLegacy /\ [][Next]_vars

\* ---------------------------------------------------------------- properties

\* The id a mark_delivered request carries (JNull when it carries none)
RequestedId(r) == Get(JsonOrEmpty(r.req), "id", JNull)

\* The table has a row with this primary key
Exists(table, id) == \E i \in 1..Len(table) : table[i].id = id

\* The row of the table that a response entry reports
RowOf(table, entry) == table[QueryGet(table, Val(Get(entry, "id", JNull)))]

IsList(r) == r.op \in {"get_recent_orders", "all_orders"}

Pending(table) == {i \in 1..Len(table) : ~table[i].delivered}

\* C1: the delivered flag of an order never goes back. Across every step each
\* row stays in the table under the same id, a row that is delivered stays
\* delivered, and a row that enters the table enters it not delivered.
C1_DeliveredIsTerminal ==
    [][/\ Len(store') >= Len(store)
       /\ \A i \in 1..Len(store) :
            /\ store'[i].id = store[i].id
            /\ store[i].delivered => store'[i].delivered
       /\ \A i \in (Len(store) + 1)..Len(store') : ~store'[i].delivered]_vars

\* A store_order request served while the table holds a delivered order
C1_Witness ==
    /\ resp.op = "store_order"
    /\ \E i \in 1..Len(store) : store[i].delivered /\ store[i].id < store[Len(store)].id

\* C2: get_recent_orders answers with at most 20 records, none of them an
\* order that is delivered.
C2_RecentPendingAtMostLimit ==
    (resp.op = "get_recent_orders" /\ resp.status = 200) =>
        /\ Len(Val(resp.body)) <= 20
        /\ \A k \in 1..Len(Val(resp.body)) :
            /\ Exists(store, Val(Get(Val(resp.body)[k], "id", JNull)))
            /\ ~RowOf(store, Val(resp.body)[k]).delivered

\* The answer is cut to 20 records: more orders than that are pending, and a
\* delivered order is in the table
C2_Witness ==
    /\ resp.op = "get_recent_orders" /\ resp.status = 200
    /\ Len(Val(resp.body)) = 20
    /\ Cardinality(Pending(store)) > 20
    /\ \E i \in 1..Len(store) : store[i].delivered

\* C3: mark_delivered with an id that no order has answers 404 and leaves the
\* table as it was, whatever the id.
C3_UnknownIdIsNotFound ==
    [][(/\ resp'.op = "mark_delivered"
        /\ Tag(RequestedId(resp')) = "int"
        /\ ~Exists(store, Val(RequestedId(resp'))))
       => (resp'.status = 404 /\ store' = store)]_vars

\* C4: mark_delivered with the id of an order answers 200 and leaves the order
\* delivered; when the order was delivered already (a second call), the table
\* after the call is the table before it.
C4_MarkDeliveredIdempotent ==
    [][(/\ resp'.op = "mark_delivered"
        /\ Tag(RequestedId(resp')) = "int"
        /\ Exists(store, Val(RequestedId(resp'))))
       => LET order == QueryGet(store, Val(RequestedId(resp'))) IN
          /\ resp'.status = 200
          /\ Len(store') = Len(store)
          /\ store'[order].delivered
          /\ store[order].delivered => store' = store]_vars

\* The second call on the only order of a table that started empty: it
\* succeeded and nothing was written
C4_Witness ==
    /\ resp.op = "mark_delivered" /\ resp.status = 200
    /\ Len(store) = 1
    /\ dbLog = <<"get", "commit">>
    /\ store[QueryGet(store, Val(RequestedId(resp)))].delivered

\* C5: mark_delivered with no id, or with an empty one, answers 400 "Missing
\* 'id'" and makes no storage call: no lookup, and the table stays as it was.
C5_MissingIdBeforeStorage ==
    [][(/\ resp'.op = "mark_delivered"
        /\ RequestedId(resp') \in {JNull, JStr(<<>>)})
       => /\ resp'.status = 400
          /\ resp'.body = JObj(<< <<"error", JLit("Missing 'id'")>> >>)
          /\ dbLog' = <<>>
          /\ store' = store]_vars

\* The empty id refused while the table holds orders
C5_Witness ==
    /\ resp.op = "mark_delivered" /\ resp.status = 400
    /\ RequestedId(resp) = JStr(<<>>)
    /\ Len(store) > 0

\* The calendar date 'YYYY-MM-DD' as one number
DayOf(date) == Num(date, 1, 4) * 10000 + Num(date, 6, 7) * 100 + Num(date, 9, 10)

\* The ids a list response reports
ReportedIds(r) == {Val(Get(Val(r.body)[k], "id", JNull)) : k \in 1..Len(Val(r.body))}

\* C6: all_orders with bare dates d1 and d2 answers with exactly the orders
\* (pending or delivered) of the days d1 to d2: with start = end = d, the
\* orders of the whole day d, up to the end of its last second.
C6_WholeDays ==
    (/\ resp.op = "all_orders"
     /\ resp.req.start \in BareDates /\ resp.req.end \in BareDates)
    => /\ resp.status = 200
       /\ ReportedIds(resp) =
            {store[i].id : i \in
                {j \in 1..Len(store) :
                    /\ DayOf(Val(resp.req.start)) <= DateKey(store[j].timestamp)
                    /\ DateKey(store[j].timestamp) <= DayOf(Val(resp.req.end))}}

\* The bodies all_orders may answer with
AllOrdersAnswers(table, start_str, end_str) ==
    {<<outcome.resp.status, outcome.resp.body>> :
        outcome \in all_orders(table, start_str, end_str)}

\* C7: all_orders with a start (or an end) that is no date answers 200, and
\* with what it answers when that parameter is not given at all.
C7_MalformedBoundIsNoBound ==
    resp.op = "all_orders" =>
        /\ resp.req.start \in Garbage =>
            /\ resp.status = 200
            /\ <<resp.status, resp.body>> \in AllOrdersAnswers(store, JNull, resp.req.end)
            /\ AllOrdersAnswers(store, resp.req.start, resp.req.end)
                   = AllOrdersAnswers(store, JNull, resp.req.end)
        /\ resp.req.end \in Garbage =>
            /\ resp.status = 200
            /\ <<resp.status, resp.body>> \in AllOrdersAnswers(store, resp.req.start, JNull)
            /\ AllOrdersAnswers(store, resp.req.start, resp.req.end)
                   = AllOrdersAnswers(store, resp.req.start, JNull)

\* A malformed start beside an end that does filter: some orders are reported,
\* not all
C7_Witness ==
    /\ resp.op = "all_orders" /\ resp.status = 200
    /\ resp.req.start \in Garbage /\ resp.req.end \in BareDates
    /\ Len(Val(resp.body)) > 0
    /\ Len(Val(resp.body)) < Len(store)

\* C8: the id store_order answers with is the id of exactly one row, which is
\* the last; its name, emp_code and room_no are the request's (None when not
\* given), its mode is the request's or "desk", its order_json deserialises to
\* the request's order or to the empty list, and it is not delivered.
C8_StoredAsSubmitted ==
    resp.op = "store_order" =>
        LET id == Val(Get(resp.body, "id", JNull))
            given(key) == resp.req # JNull /\ HasKey(resp.req, key)
            field(key) == Val(resp.req)[CHOOSE i \in 1..Len(Val(resp.req)) :
                                            Val(resp.req)[i][1] = key][2]
        IN /\ resp.status = 200
           /\ Cardinality({i \in 1..Len(store) : store[i].id = id}) = 1
           /\ LET row == store[QueryGet(store, id)] IN
              /\ row.name = IF given("name") THEN field("name") ELSE JNull
              /\ row.emp_code = IF given("emp_code") THEN field("emp_code") ELSE JNull
              /\ row.room_no = IF given("room_no") THEN field("room_no") ELSE JNull
              /\ row.mode = IF given("mode") THEN field("mode")
                            ELSE JStr(<<"d", "e", "s", "k">>)
              /\ Tag(row.order_json) = "str"
              /\ Loads(Val(row.order_json)).ok
              /\ Loads(Val(row.order_json)).v =
                    IF given("order") THEN field("order") ELSE JArr(<<>>)
              /\ row.delivered = FALSE

\* An order with a mode and items stored after an order with neither
C8_Witness ==
    /\ resp.op = "store_order"
    /\ Len(store) = 2
    /\ store[1].mode = JStr(<<"d", "e", "s", "k">>)
    /\ resp.req # JNull /\ HasKey(resp.req, "mode") /\ HasKey(resp.req, "order")

\* Texts that are not JSON
NotJson == {JStr(<<"{", "o">>)}

\* C9: a list request answers 200 whatever the stored order_json texts are,
\* and reports the empty list for an order whose text is absent or not JSON.
C9_CorruptItemsReadAsEmpty ==
    (IsList(resp) /\ \E i \in 1..Len(store) : store[i].order_json \in {JNull} \cup NotJson)
    => /\ resp.status = 200
       /\ \A k \in 1..Len(Val(resp.body)) :
            RowOf(store, Val(resp.body)[k]).order_json \in {JNull} \cup NotJson
                => Get(Val(resp.body)[k], "order", JNull) = JArr(<<>>)

\* C10: a list response is in non-increasing timestamp order: of two orders
\* in it, the one reported first has the later or the same timestamp.
C10_NewestFirst ==
    (IsList(resp) /\ resp.status = 200) =>
        \A k, l \in 1..Len(Val(resp.body)) :
            k < l => DtLeq(RowOf(store, Val(resp.body)[l]).timestamp,
                           RowOf(store, Val(resp.body)[k]).timestamp)

\* An order stored later, at an earlier clock reading, is reported after the
\* order stored before it
C10_Witness ==
    /\ IsList(resp) /\ resp.status = 200
    /\ Len(Val(resp.body)) >= 2
    /\ LET first == RowOf(store, Val(resp.body)[1])
           second == RowOf(store, Val(resp.body)[2])
       IN first.id < second.id /\ ~DtLeq(first.timestamp, second.timestamp)

====
